---- MODULE Spec2Model ----
\* Childcare cost estimator (templates/creche.py, ChildcareCostEstimator):
\* the estimator object, driven through its public methods.  Pandas frames are
\* modelled by their columns and their default RangeIndex 0..n-1; multipliers
\* are exact rationals num/den (binary fractions, for which the float
\* arithmetic of the source is exact).
EXTENDS Integers, Sequences, FiniteSets, TLC

VARIABLES config, self, out, session_state

vars == <<config, self, out, session_state>>

-----------------------------------------------------------------------------
\* Bounds of the model

\* largest configured max-age (months)
MaxAge == 60
\* a short configured max-age (months)
ShortMaxAge == 10
\* a configured min-age other than 0
AltMinAge == 12
\* largest configured age-step
MaxStep == 3
\* months probed below 0 and above the largest max-age
MonthsBelow == 2
MonthsAbove == 2
\* largest number of months given to months_to_str on its own
MaxMonthsShown == 130
MaxTickAge == 72
MaxFactor == 3

-----------------------------------------------------------------------------
\* Program constants

\* month < 12: infant
InfantLimit == 12
\* month < 48: toddler
ToddlerLimit == 48
\* monthly cost = annual cost / 12
MonthsPerYear == 12

-----------------------------------------------------------------------------
\* Python values

\* None, or an attribute that was never assigned
None == <<>>
Some(v) == <<v>>
IsSome(o) == o /= <<>>
Val(o) == o[1]

Rat(n, d) == [num |-> n, den |-> d]

\* int(x) for the float x = a / b (b > 0): truncation toward zero
TruncDiv(a, b) == IF a >= 0 THEN a \div b ELSE -((-a) \div b)

CostData(i, t, p) == [infant |-> i, toddler |-> t, preschool |-> p]

-----------------------------------------------------------------------------
\* Configuration and reference data

CARE_TYPE_TO_KEY == [c \in {"Family Care", "Center Based"} |->
                        IF c = "Family Care" THEN "family-care" ELSE "center-based"]

States == {"Alabama"}

\* the reference tables, by care type and state
default_data ==
    [k \in {"family-care", "center-based"} |->
        [s \in States |->
            IF k = "center-based" THEN CostData(12000, 9600, 8400)
                                  ELSE CostData(1000, 700, 500)]]

\* what the user may type into the three number inputs (min_value = 0)
UserCostInputs == {CostData(100, 50, 0)}

Brackets == {"Low", "Average", "High"}

\* the default pair of the duration slider: DefaultStart and DefaultEnd on the
\* long range where the range holds them, else the ends of the range
DefaultStart == 6
DefaultEnd == 54
AgeConfigs ==
    {[min_age |-> a, max_age |-> b, age_step |-> s,
      default_age_start |-> IF b = MaxAge /\ a <= DefaultStart THEN DefaultStart ELSE a,
      default_age_end |-> IF b = MaxAge /\ DefaultEnd <= b THEN DefaultEnd ELSE b] :
        a \in {0, AltMinAge}, b \in {ShortMaxAge, MaxAge}, s \in {1, MaxStep}}

MultiplierConfigs ==
    { [b \in Brackets |-> CASE b = "Low" -> Rat(3, 4)
                            [] b = "Average" -> Rat(1, 1)
                            [] OTHER -> Rat(5, 4)],
      [b \in Brackets |-> CASE b = "Low" -> Rat(-3, 4)
                            [] b = "Average" -> Rat(1, 1)
                            [] OTHER -> Rat(0, 1)] }

\* the configurations tried: every age configuration with positive
\* multipliers, the short ranges also with a negative and a zero multiplier
Configs ==
    {c \in [ages : AgeConfigs, cost_multipliers : MultiplierConfigs] :
        (\E b \in Brackets : c.cost_multipliers[b].num <= 0)
            => c.ages.max_age = ShortMaxAge}

-----------------------------------------------------------------------------
\* Frames: columns, length n, values val[column][label], labels 0..n-1

Frame(cols, n, val) == [columns |-> cols, n |-> n, val |-> val]

Index(df) == 0..(df.n - 1)

\* df.loc[label, column] finds an entry
HasLoc(df, label, column) ==
    /\ IsSome(label) /\ Val(label) \in Index(df)
    /\ IsSome(column) /\ Val(column) \in df.columns

\* df.loc[label, column]
Loc(df, label, column) == df.val[column][label]

\* the label slice df.loc[a:b] of a RangeIndex: both ends included, cut to the
\* labels that exist; <<first, last>>
Max(a, b) == IF a >= b THEN a ELSE b
Min(a, b) == IF a <= b THEN a ELSE b
LocSlice(df, a, b) == <<Max(a, 0), Min(b, df.n - 1)>>

\* sum of f over the labels a..b
RECURSIVE SumRange(_, _, _)
SumRange(f, a, b) == IF a > b THEN 0 ELSE f[a] + SumRange(f, a + 1, b)

\* Series.mean() of the labels a..b: sum / count, kept as the pair
Mean(f, a, b) == Rat(SumRange(f, a, b), b - a + 1)

\* the running total of one column
RECURSIVE running_total(_, _)
running_total(f, i) == IF i = 0 THEN f[0] ELSE running_total(f, i - 1) + f[i]

\* a running total that leaves out the row itself
cumsum_exclusive(df) ==
    Frame(df.columns, df.n,
          [c \in df.columns |-> [i \in Index(df) |->
              IF i = 0 THEN 0 ELSE running_total(df.val[c], i - 1)]])

\* DataFrame.cumsum()
cumsum(df) ==
    Frame(df.columns, df.n,
          [c \in df.columns |-> [i \in Index(df) |-> running_total(df.val[c], i)]])

-----------------------------------------------------------------------------
\* calculate_costs

\* a resolver whose boundary months fall into the band below
month_to_cost_closed_upper(cost_data, month) ==
    IF month <= InfantLimit THEN cost_data.infant
    ELSE IF month <= ToddlerLimit THEN cost_data.toddler
    ELSE cost_data.preschool

month_to_cost(cost_data, month) ==
    IF month < InfantLimit THEN cost_data.infant
    ELSE IF month < ToddlerLimit THEN cost_data.toddler
    ELSE cost_data.preschool

\* len(np.arange(start, stop, step)) for step >= 1
arange_len(start, stop, step) ==
    IF stop <= start THEN 0 ELSE (stop - start + step - 1) \div step

\* np.arange(min-age, max-age + 1, age-step), as position -> month
months(ages) ==
    [i \in 0..(arange_len(ages.min_age, ages.max_age + 1, ages.age_step) - 1) |->
        ages.min_age + i * ages.age_step]

\* a projector that truncates the monthly baseline before the multiplier
monthly_value_truncated_first(cost, multiplier) ==
    TruncDiv(TruncDiv(cost, MonthsPerYear) * multiplier.num, multiplier.den)

\* one entry of (monthly_cost_arr * multiplier / 12).astype(int)
monthly_value(cost, multiplier) ==
    TruncDiv(cost * multiplier.num, multiplier.den * MonthsPerYear)

\* a frame whose columns all carry the multiplier of the bracket bound last
monthly_cost_frame_last_multiplier(cost_data, ages, cost_multipliers) ==
    LET ms == months(ages)
        n == arange_len(ages.min_age, ages.max_age + 1, ages.age_step)
        last == CHOOSE b \in DOMAIN cost_multipliers :
                    \A c \in DOMAIN cost_multipliers :
                        cost_multipliers[c].num * cost_multipliers[b].den
                            <= cost_multipliers[b].num * cost_multipliers[c].den
    IN Frame(DOMAIN cost_multipliers, n,
             [b \in DOMAIN cost_multipliers |-> [i \in 0..(n - 1) |->
                 monthly_value(month_to_cost(cost_data, ms[i]), cost_multipliers[last])]])

monthly_cost_frame(cost_data, ages, cost_multipliers) ==
    LET ms == months(ages)
        n == arange_len(ages.min_age, ages.max_age + 1, ages.age_step)
    IN Frame(DOMAIN cost_multipliers, n,
             [b \in DOMAIN cost_multipliers |-> [i \in 0..(n - 1) |->
                 monthly_value(month_to_cost(cost_data, ms[i]), cost_multipliers[b])]])

\* the configured brackets whatever the data mode
projection_multipliers_configured(use_default_data, cost_multipliers) ==
    cost_multipliers

\* the multiplier mapping calculate_costs uses
projection_multipliers(use_default_data, cost_multipliers) ==
    IF use_default_data THEN cost_multipliers
    ELSE [b \in {"User Data"} |-> Rat(1, 1)]

-----------------------------------------------------------------------------
\* The estimator object

\* st.session_state of a new browser session: no keys
NewSession == [start |-> None, end |-> None]

NewEstimator ==
    [user_state |-> None, cost_multiplier |-> None, cost_bracket |-> None,
     care_type |-> None, cost_data |-> None, use_default_data |-> TRUE,
     start_age |-> None, end_age |-> None, user_bracket |-> None,
     user_multiplier |-> Rat(1, 1),
     monthly_cost_df |-> None, cumulative_cost_df |-> None]

Init ==
    /\ config \in Configs
    /\ self = NewEstimator
    /\ out = [op |-> "__init__", status |-> "ok"]
    /\ session_state = NewSession

\* ChildcareCostEstimator(config) again: a rerun of the script
Construct ==
    /\ out.op /= "__init__"
    /\ self' = NewEstimator
    /\ out' = [op |-> "__init__", status |-> "ok"]
    /\ UNCHANGED <<config, session_state>>

\* get_user_choice called on its own
get_user_choice ==
    /\ \E use_default \in BOOLEAN :
           self' = [self EXCEPT !.use_default_data = use_default]
    /\ out' = [op |-> "get_user_choice", status |-> "ok"]
    /\ UNCHANGED <<config, session_state>>

\* get_user_cost_data called on its own
get_user_cost_data ==
    /\ \E typed \in UserCostInputs :
           self' = [self EXCEPT !.cost_data = Some(typed)]
    /\ out' = [op |-> "get_user_cost_data", status |-> "ok"]
    /\ UNCHANGED <<config, session_state>>

get_user_input ==
    \E state \in States, care \in DOMAIN CARE_TYPE_TO_KEY,
       bracket \in DOMAIN config.cost_multipliers,
       use_default \in BOOLEAN, typed \in UserCostInputs :
        LET chosen == [self EXCEPT !.user_state = Some(state),
                                   !.care_type = Some(care),
                                   !.cost_bracket = Some(bracket),
                                   !.cost_multiplier = Some(config.cost_multipliers[bracket]),
                                   !.use_default_data = use_default]
        IN /\ self' = IF ~use_default
                      THEN [chosen EXCEPT !.user_bracket = Some("User Data"),
                                          !.cost_data = Some(typed)]
                      ELSE [chosen EXCEPT !.cost_data =
                                              Some(default_data[CARE_TYPE_TO_KEY[care]][state]),
                                          !.user_bracket = Some(bracket),
                                          !.user_multiplier = config.cost_multipliers[bracket]]
           /\ out' = [op |-> "get_user_input", status |-> "ok"]
           /\ UNCHANGED <<config, session_state>>

\* calculate_costs adding the new monthly values to the series it finds
calculate_costs_accumulating ==
    LET ages == config.ages
        n == arange_len(ages.min_age, ages.max_age + 1, ages.age_step)
    IN /\ IF n > 0 /\ ~IsSome(self.cost_data)
          THEN /\ out' = [op |-> "calculate_costs", status |-> "AttributeError"]
               /\ UNCHANGED self
          ELSE LET fresh ==
                     monthly_cost_frame(
                         IF IsSome(self.cost_data) THEN Val(self.cost_data)
                         ELSE CostData(0, 0, 0),
                         ages,
                         projection_multipliers(self.use_default_data,
                                                config.cost_multipliers))
                   monthly ==
                     IF IsSome(self.monthly_cost_df)
                        /\ Val(self.monthly_cost_df).columns = fresh.columns
                     THEN Frame(fresh.columns, fresh.n,
                                [c \in fresh.columns |-> [i \in Index(fresh) |->
                                    fresh.val[c][i] + Val(self.monthly_cost_df).val[c][i]]])
                     ELSE fresh
               IN /\ self' = [self EXCEPT !.monthly_cost_df = Some(monthly),
                                          !.cumulative_cost_df = Some(cumsum(monthly))]
                  /\ out' = [op |-> "calculate_costs", status |-> "ok"]
       /\ UNCHANGED <<config, session_state>>

calculate_costs ==
    LET ages == config.ages
        n == arange_len(ages.min_age, ages.max_age + 1, ages.age_step)
    IN /\ IF n > 0 /\ ~IsSome(self.cost_data)
          THEN /\ out' = [op |-> "calculate_costs", status |-> "AttributeError"]
               /\ UNCHANGED self
          ELSE LET monthly ==
                     monthly_cost_frame(
                         IF IsSome(self.cost_data) THEN Val(self.cost_data)
                         ELSE CostData(0, 0, 0),
                         ages,
                         projection_multipliers(self.use_default_data,
                                                config.cost_multipliers))
               IN /\ self' = [self EXCEPT !.monthly_cost_df = Some(monthly),
                                          !.cumulative_cost_df = Some(cumsum(monthly))]
                  /\ out' = [op |-> "calculate_costs", status |-> "ok"]
       /\ UNCHANGED <<config, session_state>>

-----------------------------------------------------------------------------
\* utils/dateutils.py

\* months_to_str that never uses the singular
months_to_str_always_plural(n) ==
    LET years == n \div 12
        mths == n % 12
        year_str == IF years = 0 THEN "" ELSE ToString(years) \o " years"
        month_str == IF years /= 0 /\ mths = 0 THEN "" ELSE ToString(mths) \o " months"
    IN year_str \o " " \o month_str

months_to_str(n) ==
    LET years == n \div 12
        mths == n % 12
        year_str == IF years = 0 THEN ""
                    ELSE IF years = 1 THEN "1 year"
                    ELSE ToString(years) \o " years"
        month_str == IF years = 0
                     THEN (IF mths = 1 THEN "1 month" ELSE ToString(mths) \o " months")
                     ELSE IF mths = 0 THEN ""
                     ELSE IF mths = 1 THEN "1 month"
                     ELSE ToString(mths) \o " months"
    IN year_str \o " " \o month_str

\* what update_duration_write_container writes: the two ages of the sentence
duration_text(start, end) == <<months_to_str(start), months_to_str(end)>>

-----------------------------------------------------------------------------
\* get_daycare_duration and the display methods

\* the values the slider offers: min-age, min-age + age-step, ... up to max-age
slider_values(ages) ==
    {ages.min_age + k * ages.age_step : k \in 0..(ages.max_age - ages.min_age)}
        \cap (ages.min_age)..(ages.max_age)

\* the slider positions a user of the model picks among: the marks on the
\* grid and the default pair the slider is created with
SliderMarks == {6, 11, 54}
slider_picks(ages) ==
    (slider_values(ages) \cap SliderMarks)
        \cup ({ages.default_age_start, ages.default_age_end}
                  \cap (ages.min_age)..(ages.max_age))

\* what st.slider does: for min-age <= max-age it returns a pair start <= end
\* (the default pair until the user moves it); for min-age > max-age, a range
\* with no values, it either refuses or returns some pair of the two ends
slider_outcomes(ages) ==
    IF ages.min_age > ages.max_age
    THEN {[status |-> "StreamlitAPIException"]}
         \cup {[status |-> "ok", start |-> s, end |-> e] :
                   s \in {ages.min_age, ages.max_age}, e \in {ages.min_age, ages.max_age}}
    ELSE {o \in [status : {"ok"}, start : slider_picks(ages), end : slider_picks(ages)] :
              o.start <= o.end}

get_daycare_duration ==
    /\ \E slid \in slider_outcomes(config.ages) :
           IF slid.status /= "ok"
           THEN /\ out' = [op |-> "get_daycare_duration", status |-> slid.status]
                /\ UNCHANGED self
           ELSE /\ self' = [self EXCEPT !.start_age = Some(slid.start),
                                        !.end_age = Some(slid.end)]
                /\ out' = [op |-> "get_daycare_duration", status |-> "ok",
                           start |-> slid.start, end |-> slid.end,
                           text |-> duration_text(slid.start, slid.end)]
    /\ UNCHANGED <<config, session_state>>

\* f"{x:,.0f}" of x = a / b (b > 0): the nearest integer, ties to even
RoundHalfEven(a, b) ==
    LET fl == IF a >= 0 THEN a \div b ELSE -((-a + b - 1) \div b)
        twice == 2 * (a - fl * b)
    IN IF twice < b THEN fl
       ELSE IF twice > b THEN fl + 1
       ELSE IF fl % 2 = 0 THEN fl ELSE fl + 1

adjusted_tuition(cost_data, user_multiplier) ==
    [g \in {"Infant", "Toddler", "Preschool"} |->
        LET cost == CASE g = "Infant" -> cost_data.infant
                      [] g = "Toddler" -> cost_data.toddler
                      [] OTHER -> cost_data.preschool
        IN RoundHalfEven(cost * user_multiplier.num, user_multiplier.den)]

display_tuition_metrics ==
    /\ out' = IF ~IsSome(self.cost_data)
              THEN [op |-> "display_tuition_metrics", status |-> "AttributeError"]
              ELSE [op |-> "display_tuition_metrics", status |-> "ok",
                    metrics |-> adjusted_tuition(Val(self.cost_data), self.user_multiplier)]
    /\ UNCHANGED <<config, self, session_state>>

-----------------------------------------------------------------------------
\* utils/plot.py

\* np.arange(0, 72, 10)
TickStop == 72
TickStride == 10
base_ticks == [i \in 1..arange_len(0, TickStop, TickStride) |-> (i - 1) * TickStride]

\* the sequence in increasing order, duplicates kept
RECURSIVE sorted(_)
sorted(seq) ==
    IF seq = <<>> THEN <<>>
    ELSE LET i == CHOOSE j \in 1..Len(seq) : \A k \in 1..Len(seq) : seq[j] <= seq[k]
         IN <<seq[i]>> \o sorted(SubSeq(seq, 1, i - 1) \o SubSeq(seq, i + 1, Len(seq)))

\* the sequence without its repeated elements, in increasing order
RECURSIVE np_unique(_)
np_unique(seq) ==
    IF seq = <<>> THEN <<>>
    ELSE LET lo == seq[CHOOSE j \in 1..Len(seq) : \A k \in 1..Len(seq) : seq[j] <= seq[k]]
         IN <<lo>> \o np_unique(SelectSeq(seq, LAMBDA x : x /= lo))

\* tick positions that are sorted but keep repeated positions
tick_positions_with_duplicates(left, right) ==
    sorted(base_ticks \o <<left, right>>)

\* xticks: the base ticks and left, right; unique, then sorted
tick_positions(left, right) ==
    sorted(np_unique(base_ticks \o <<left, right>>))

\* list.index(x): the first position holding x
index_of(seq, x) == CHOOSE i \in 1..Len(seq) : seq[i] = x /\ \A j \in 1..(i - 1) : seq[j] /= x

in_list(seq, x) == \E i \in 1..Len(seq) : seq[i] = x

bold(x) == "<b>" \o ToString(x) \o "</b>"

\* tick labels whose first label is set after left and right were made bold
tick_labels_unit_last(xticks, left, right) ==
    LET plain == [i \in 1..Len(xticks) |-> ToString(xticks[i])]
        left_index == index_of(xticks, left)
        right_index == index_of(xticks, right)
        with_left == [plain EXCEPT ![left_index] = bold(left)]
        with_right == [with_left EXCEPT ![right_index] = bold(right)]
        with_unit == [with_right EXCEPT ![1] = "0<br><i>months</i>"]
        left_moved == IF in_list(xticks, left - 1) \/ in_list(xticks, left + 1)
                      THEN [with_unit EXCEPT ![left_index] = "<br>" \o @]
                      ELSE with_unit
    IN IF in_list(xticks, right - 1) \/ in_list(xticks, right + 1)
       THEN [left_moved EXCEPT ![right_index] = "<br>" \o @]
       ELSE left_moved

\* xticklabels
tick_labels(xticks, left, right) ==
    LET plain == [i \in 1..Len(xticks) |-> ToString(xticks[i])]
        with_unit == [plain EXCEPT ![1] = "0<br><i>months</i>"]
        left_index == index_of(xticks, left)
        right_index == index_of(xticks, right)
        with_left == [with_unit EXCEPT ![left_index] = bold(left)]
        with_right == [with_left EXCEPT ![right_index] = bold(right)]
        left_moved == IF in_list(xticks, left - 1) \/ in_list(xticks, left + 1)
                      THEN [with_right EXCEPT ![left_index] = "<br>" \o @]
                      ELSE with_right
    IN IF in_list(xticks, right - 1) \/ in_list(xticks, right + 1)
       THEN [left_moved EXCEPT ![right_index] = "<br>" \o @]
       ELSE left_moved

\* the cumulative data drawn as it is, not offset to start at left
offset_data_not_applied(data, columns_included, left) == data

\* data[columns_included] = data[columns_included] - data.loc[left, columns_included]
offset_data(data, columns_included, left) ==
    Frame(data.columns, data.n,
          [c \in data.columns |-> [i \in Index(data) |->
              IF c \in columns_included
              THEN data.val[c][i] - data.val[c][left]
              ELSE data.val[c][i]]])

\* what plot_trend draws, or the exception it raises
plot_trend_figure(cumulative_data, monthly_data, columns_included, column_highlight, left, right) ==
    IF ~(IsSome(left) /\ Val(left) \in Index(cumulative_data))
    THEN [status |-> "KeyError"]
    ELSE IF ~(IsSome(column_highlight) /\ Val(column_highlight) \in cumulative_data.columns)
    THEN [status |-> "KeyError"]
    ELSE IF ~(IsSome(right) /\ Val(right) \in Index(cumulative_data))
    THEN [status |-> "IndexError"]
    ELSE LET data == offset_data(cumulative_data, columns_included, Val(left))
             h == Val(column_highlight)
             xticks == tick_positions(Val(left), Val(right))
         IN [status |-> "ok",
             plotted |-> columns_included,
             highlight |-> h,
             cumulative_markers |-> <<Loc(data, Val(left), h), Loc(data, Val(right), h)>>,
             monthly_markers |-> <<Loc(monthly_data, Val(left), h),
                                   Loc(monthly_data, Val(right), h)>>,
             xticks |-> xticks,
             xticklabels |-> tick_labels(xticks, Val(left), Val(right))]

\* plot_trend offsetting the caller's frame itself
plot_trend_without_copy(cumulative_data, monthly_data, columns_included, column_highlight, left, right) ==
    LET fig == plot_trend_figure(cumulative_data, monthly_data, columns_included,
                                 column_highlight, left, right)
    IN [figure |-> fig,
        cumulative_data |-> IF IsSome(left) /\ Val(left) \in Index(cumulative_data)
                            THEN offset_data(cumulative_data, columns_included, Val(left))
                            ELSE cumulative_data,
        monthly_data |-> monthly_data]

\* plot_trend: the figure, and the caller's two frames as the call leaves them
\* (the offset is applied to a copy)
plot_trend(cumulative_data, monthly_data, columns_included, column_highlight, left, right) ==
    [figure |-> plot_trend_figure(cumulative_data, monthly_data, columns_included,
                                  column_highlight, left, right),
     cumulative_data |-> cumulative_data,
     monthly_data |-> monthly_data]

display_cumulative_cost ==
    IF ~IsSome(self.monthly_cost_df)
    THEN /\ out' = [op |-> "display_cumulative_cost", status |-> "AttributeError"]
         /\ UNCHANGED <<config, self, session_state>>
    ELSE LET drawn == plot_trend(Val(self.cumulative_cost_df), Val(self.monthly_cost_df),
                                 Val(self.monthly_cost_df).columns, self.user_bracket,
                                 self.start_age, self.end_age)
         IN /\ out' = [op |-> "display_cumulative_cost"] @@ drawn.figure
            /\ self' = [self EXCEPT !.cumulative_cost_df = Some(drawn.cumulative_data),
                                    !.monthly_cost_df = Some(drawn.monthly_data)]
            /\ UNCHANGED <<config, session_state>>

\* a summary whose total is taken from end back to start
summary_start_minus_end(cumulative_cost_df, monthly_cost_df, start_age, end_age, user_bracket) ==
    IF \/ ~HasLoc(cumulative_cost_df, end_age, user_bracket)
       \/ ~HasLoc(cumulative_cost_df, start_age, user_bracket)
    THEN [status |-> "KeyError"]
    ELSE LET s == Val(start_age)
             e == Val(end_age)
             b == Val(user_bracket)
         IN [status |-> "ok",
             total_cost |-> Loc(cumulative_cost_df, s, b) - Loc(cumulative_cost_df, e, b),
             avg_monthly_cost |->
                 LET rows == LocSlice(monthly_cost_df, s, e + 1)
                 IN Mean(monthly_cost_df.val[b], rows[1], rows[2]),
             duration_months |-> e - s]

\* a summary that counts the start month's own cost and both end months
summary_counting_start(cumulative_cost_df, monthly_cost_df, start_age, end_age, user_bracket) ==
    IF \/ ~HasLoc(cumulative_cost_df, end_age, user_bracket)
       \/ ~HasLoc(cumulative_cost_df, start_age, user_bracket)
    THEN [status |-> "KeyError"]
    ELSE LET s == Val(start_age)
             e == Val(end_age)
             b == Val(user_bracket)
         IN [status |-> "ok",
             total_cost |-> Loc(cumulative_cost_df, e, b) - Loc(cumulative_cost_df, s, b)
                            + Loc(monthly_cost_df, s, b),
             avg_monthly_cost |->
                 LET rows == LocSlice(monthly_cost_df, s, e + 1)
                 IN Mean(monthly_cost_df.val[b], rows[1], rows[2]),
             duration_months |-> e - s + 1]

\* a summary that clamps a bound outside the index to the nearest label
summary_clamped(cumulative_cost_df, monthly_cost_df, start_age, end_age, user_bracket) ==
    IF \/ ~(IsSome(user_bracket) /\ Val(user_bracket) \in cumulative_cost_df.columns)
       \/ ~IsSome(start_age) \/ ~IsSome(end_age) \/ cumulative_cost_df.n = 0
    THEN [status |-> "KeyError"]
    ELSE LET s == Min(Max(Val(start_age), 0), cumulative_cost_df.n - 1)
             e == Min(Max(Val(end_age), 0), cumulative_cost_df.n - 1)
             b == Val(user_bracket)
         IN [status |-> "ok",
             total_cost |-> Loc(cumulative_cost_df, e, b) - Loc(cumulative_cost_df, s, b),
             avg_monthly_cost |->
                 LET rows == LocSlice(monthly_cost_df, s, e + 1)
                 IN Mean(monthly_cost_df.val[b], rows[1], rows[2]),
             duration_months |-> e - s]

\* the three figures of the summary card
summary(cumulative_cost_df, monthly_cost_df, start_age, end_age, user_bracket) ==
    IF \/ ~HasLoc(cumulative_cost_df, end_age, user_bracket)
       \/ ~HasLoc(cumulative_cost_df, start_age, user_bracket)
    THEN [status |-> "KeyError"]
    ELSE LET s == Val(start_age)
             e == Val(end_age)
             b == Val(user_bracket)
         IN [status |-> "ok",
             total_cost |-> Loc(cumulative_cost_df, e, b) - Loc(cumulative_cost_df, s, b),
             avg_monthly_cost |->
                 LET rows == LocSlice(monthly_cost_df, s, e + 1)
                 IN Mean(monthly_cost_df.val[b], rows[1], rows[2]),
             duration_months |-> e - s]

display_summary_card ==
    /\ out' = IF ~IsSome(self.cumulative_cost_df)
              THEN [op |-> "display_summary_card", status |-> "AttributeError"]
              ELSE [op |-> "display_summary_card"] @@
                   summary(Val(self.cumulative_cost_df), Val(self.monthly_cost_df),
                           self.start_age, self.end_age, self.user_bracket)
    /\ UNCHANGED <<config, self, session_state>>

Next ==
    \/ Construct
    \/ get_user_choice
    \/ get_user_cost_data
    \/ get_user_input
    \/ calculate_costs
    \/ get_daycare_duration
    \/ display_tuition_metrics
    \/ display_cumulative_cost
    \/ display_summary_card

Spec == Init /\ [][Next]_vars

-----------------------------------------------------------------------------
\* ChildcareCostEstimator.run: the steps of one execution of the script, each
\* after the one before it returned; an exception ends the execution

\* the order with the chart drawn before the duration is asked for
run_order_chart_before_duration ==
    <<"get_user_input", "calculate_costs", "display_tuition_metrics",
      "display_cumulative_cost", "get_daycare_duration", "display_summary_card">>

run_order ==
    <<"get_user_input", "calculate_costs", "display_tuition_metrics",
      "get_daycare_duration", "display_cumulative_cost", "display_summary_card">>

\* the step that has just returned when step is called
called_after(step) ==
    LET i == index_of(run_order, step)
    IN IF i = 1 THEN "__init__" ELSE run_order[i - 1]

reached(step) == out.op = called_after(step) /\ out.status = "ok"

run_get_user_input == reached("get_user_input") /\ get_user_input

run_calculate_costs == reached("calculate_costs") /\ calculate_costs

run_display_tuition_metrics == reached("display_tuition_metrics") /\ display_tuition_metrics

run_get_daycare_duration == reached("get_daycare_duration") /\ get_daycare_duration

run_display_cumulative_cost == reached("display_cumulative_cost") /\ display_cumulative_cost

run_display_summary_card == reached("display_summary_card") /\ display_summary_card

RunInit == Init

RunNext ==
    \/ Construct
    \/ run_get_user_input
    \/ run_calculate_costs
    \/ run_display_tuition_metrics
    \/ run_get_daycare_duration
    \/ run_display_cumulative_cost
    \/ run_display_summary_card

RunSpec == RunInit /\ [][RunNext]_vars

-----------------------------------------------------------------------------
\* templates/creche_v1.py: get_daycare_duration with the pair kept in
\* st.session_state

\* the text left in the container when it is not written again for a new pair
shown_text_first_write(stored, start, end) ==
    duration_text(Val(stored.start), Val(stored.end))

\* the text the container shows when the function returns: written for the
\* stored pair, and again for the slider's pair if that differs
shown_text(stored, start, end) ==
    IF start /= Val(stored.start) \/ end /= Val(stored.end)
    THEN duration_text(start, end)
    ELSE duration_text(Val(stored.start), Val(stored.end))

v1_get_daycare_duration ==
    LET age_config == config.ages
        stored == [start |-> IF IsSome(session_state.start) THEN session_state.start
                             ELSE Some(age_config.default_age_start),
                   end |-> IF IsSome(session_state.end) THEN session_state.end
                           ELSE Some(age_config.default_age_end)]
    IN /\ \E slid \in slider_outcomes(age_config) :
              IF slid.status /= "ok"
              THEN /\ out' = [op |-> "v1.get_daycare_duration", status |-> slid.status]
                   /\ session_state' = stored
              ELSE /\ out' = [op |-> "v1.get_daycare_duration", status |-> "ok",
                              start |-> slid.start, end |-> slid.end,
                              first_text |-> duration_text(Val(stored.start), Val(stored.end)),
                              text |-> shown_text(stored, slid.start, slid.end)]
                   /\ session_state' =
                          IF slid.start /= Val(stored.start) \/ slid.end /= Val(stored.end)
                          THEN [start |-> Some(slid.start), end |-> Some(slid.end)]
                          ELSE stored
       /\ UNCHANGED <<config, self>>

V1Init == Init

V1Next == v1_get_daycare_duration

V1Spec == V1Init /\ [][V1Next]_vars

-----------------------------------------------------------------------------
\* templates/creche_v1.py: the projector as two functions of their arguments

\* the tuition dictionary of creche_v1 for a tuition table
tuition_dict_of(cost_data) ==
    [k \in {"Infant", "Toddler", "4-Year-Old"} |->
        CASE k = "Infant" -> cost_data.infant
          [] k = "Toddler" -> cost_data.toddler
          [] OTHER -> cost_data.preschool]

\* a resolver of creche_v1 whose boundary months fall into the band below
v1_month_to_cost_closed_upper(tuition_dict, month) ==
    IF month <= InfantLimit THEN tuition_dict["Infant"]
    ELSE IF month <= ToddlerLimit THEN tuition_dict["Toddler"]
    ELSE tuition_dict["4-Year-Old"]

v1_month_to_cost(tuition_dict, month) ==
    IF month < InfantLimit THEN tuition_dict["Infant"]
    ELSE IF month < ToddlerLimit THEN tuition_dict["Toddler"]
    ELSE tuition_dict["4-Year-Old"]

compute_monthly_cost_df(tuition_dict, age_config, cost_multipliers) ==
    LET n == arange_len(age_config.min_age, age_config.max_age + 1, age_config.age_step)
        month == [i \in 0..(n - 1) |-> age_config.min_age + i * age_config.age_step]
    IN Frame(DOMAIN cost_multipliers, n,
             [bracket \in DOMAIN cost_multipliers |-> [i \in 0..(n - 1) |->
                 TruncDiv(v1_month_to_cost(tuition_dict, month[i]) * cost_multipliers[bracket].num,
                          cost_multipliers[bracket].den * MonthsPerYear)]])

cumulative_cost(monthly_cost_df) ==
    Frame(monthly_cost_df.columns, monthly_cost_df.n,
          [c \in monthly_cost_df.columns |-> [i \in Index(monthly_cost_df) |->
              SumRange(monthly_cost_df.val[c], 0, i)]])

\* creche_v1's two functions applied to the estimator's tuition table and the
\* configuration
v1_projection ==
    /\ out.op = "calculate_costs" /\ out.status = "ok"
    /\ IsSome(self.cost_data)
    /\ LET monthly_cost_df == compute_monthly_cost_df(tuition_dict_of(Val(self.cost_data)),
                                                      config.ages, config.cost_multipliers)
       IN out' = [op |-> "v1.projection", status |-> "ok",
                  monthly_cost_df |-> monthly_cost_df,
                  cumulative_cost_df |-> cumulative_cost(monthly_cost_df)]
    /\ UNCHANGED <<config, self, session_state>>

ProjectorsInit == Init

ProjectorsNext ==
    \/ get_user_input
    \/ calculate_costs
    \/ v1_projection

ProjectorsSpec == ProjectorsInit /\ [][ProjectorsNext]_vars

-----------------------------------------------------------------------------
\* templates/prototype.py: run, from the sidebar's values to the summary

\* the sidebar values tried: years and months of the two ages, the pre-tax
\* contribution (0 when the account is not used), the number of children
MaxStartYears == 1
MaxEndYears == 1
AgeMonthsTried == {0, 6, 11}
PretaxTried == {0, 2500}
MaxChildren == 2

base_annual_cost == 10000

prototype_cost_multipliers ==
    [location \in {"Urban", "Suburban", "Rural"} |->
        [price_bracket \in {"Budget", "Mid-range", "Premium"} |->
            CASE location = "Urban" /\ price_bracket = "Budget" -> Rat(10, 10)
              [] location = "Urban" /\ price_bracket = "Mid-range" -> Rat(15, 10)
              [] location = "Urban" /\ price_bracket = "Premium" -> Rat(20, 10)
              [] location = "Suburban" /\ price_bracket = "Budget" -> Rat(8, 10)
              [] location = "Suburban" /\ price_bracket = "Mid-range" -> Rat(12, 10)
              [] location = "Suburban" /\ price_bracket = "Premium" -> Rat(16, 10)
              [] location = "Rural" /\ price_bracket = "Budget" -> Rat(6, 10)
              [] location = "Rural" /\ price_bracket = "Mid-range" -> Rat(9, 10)
              [] OTHER -> Rat(12, 10)]]

\* [x] * k: k copies of x, none for k <= 0
repeat(x, k) == [i \in 1..k |-> x]

\* the numerators of costs[a..b] added up
RECURSIVE sum_of_numerators(_, _, _)
sum_of_numerators(costs, a, b) ==
    IF a > b THEN 0
    ELSE IF a = b THEN costs[a].num
    ELSE LET mid == (a + b) \div 2
         IN sum_of_numerators(costs, a, mid) + sum_of_numerators(costs, mid + 1, b)

\* sum(costs[:i + 1]) of a list of fractions with one denominator
sum_of_first(costs, i) == Rat(sum_of_numerators(costs, 1, i), costs[1].den)

\* list[-1] of a list that is not empty
last(list) == list[Cardinality(DOMAIN list)]

\* calculate_costs of prototype.run; years is what run passes for it
prototype_calculate_costs(years, annual_cost, subsidy_percentage, pretax_contribution) ==
    LET monthly_cost ==
            Rat(annual_cost.num * (subsidy_percentage.den - subsidy_percentage.num)
                    - pretax_contribution * annual_cost.den * subsidy_percentage.den,
                annual_cost.den * subsidy_percentage.den * MonthsPerYear)
        costs == repeat(monthly_cost, years * MonthsPerYear)
    IN [costs |-> costs,
        cumulative_costs |-> [i \in 1..Len(costs) |-> sum_of_first(costs, i)]]

prototype_run ==
    /\ out.op = "__init__"
    /\ LET w == session_state
           start_age == w.start_age_years * MonthsPerYear + w.start_age_months
           end_age == w.end_age_years * MonthsPerYear + w.end_age_months
           annual_cost == Rat(base_annual_cost
                                  * prototype_cost_multipliers[w.location][w.price_bracket].num,
                              prototype_cost_multipliers[w.location][w.price_bracket].den)
           subsidy_percentage == IF w.gov_program THEN Rat(2, 10) ELSE Rat(0, 1)
           years == end_age - start_age
           calculated == prototype_calculate_costs(years, annual_cost, subsidy_percentage,
                                                   w.pretax_contribution)
           monthly_costs == calculated.costs
           cumulative_costs == calculated.cumulative_costs
       IN out' = IF DOMAIN cumulative_costs = {}
                 THEN [op |-> "prototype.run", status |-> "IndexError",
                       start_age |-> start_age, end_age |-> end_age,
                       monthly_costs |-> monthly_costs]
                 ELSE [op |-> "prototype.run", status |-> "ok",
                       start_age |-> start_age, end_age |-> end_age,
                       monthly_costs |-> monthly_costs,
                       total_cost |-> Rat(last(cumulative_costs).num * w.num_children,
                                          last(cumulative_costs).den)]
    /\ UNCHANGED <<config, self, session_state>>

\* a script run with some values of the sidebar's widgets
PrototypeInit ==
    /\ config = CHOOSE c \in Configs : TRUE
    /\ self = NewEstimator
    /\ out = [op |-> "__init__", status |-> "ok"]
    /\ session_state \in
           [start_age_years : 0..MaxStartYears, start_age_months : AgeMonthsTried,
            end_age_years : 0..MaxEndYears, end_age_months : AgeMonthsTried,
            location : {"Urban", "Suburban", "Rural"},
            price_bracket : {"Budget", "Mid-range", "Premium"},
            gov_program : BOOLEAN,
            pretax_contribution : PretaxTried,
            num_children : 1..MaxChildren]

PrototypeNext == prototype_run

PrototypeSpec == PrototypeInit /\ [][PrototypeNext]_vars

-----------------------------------------------------------------------------
\* The age-band resolver on its own: month_to_cost applied to one month

ProbeMonths == (0 - MonthsBelow)..(MaxAge + MonthsAbove)

BandNames == CostData("Infant", "Toddler", "Preschool")

AllCostData ==
    UserCostInputs \cup {default_data[k][s] : k \in DOMAIN default_data, s \in States}

ResolveInit ==
    /\ config \in Configs
    /\ \E cd \in AllCostData : self = [NewEstimator EXCEPT !.cost_data = Some(cd)]
    /\ out = [op |-> "__init__", status |-> "ok"]
    /\ session_state = NewSession

resolve_month ==
    /\ \E month \in ProbeMonths :
          out' = [op |-> "month_to_cost", status |-> "ok", month |-> month,
                  cost |-> month_to_cost(Val(self.cost_data), month),
                  band |-> month_to_cost(BandNames, month)]
    /\ UNCHANGED <<config, self, session_state>>

ResolveNext == resolve_month

ResolveSpec == ResolveInit /\ [][ResolveNext]_vars

-----------------------------------------------------------------------------
\* months_to_str on its own

MonthsInit == Init

format_months ==
    /\ \E n \in 0..MaxMonthsShown :
          out' = [op |-> "months_to_str", status |-> "ok", n |-> n, text |-> months_to_str(n)]
    /\ UNCHANGED <<config, self, session_state>>

MonthsNext == format_months

MonthsSpec == MonthsInit /\ [][MonthsNext]_vars

-----------------------------------------------------------------------------
\* the tick layout of plot_trend on its own

\* the highlighted interval is the estimator's chosen interval
TicksInit ==
    /\ config \in Configs
    /\ \E left \in 0..MaxTickAge, right \in 0..MaxTickAge :
          /\ left <= right
          /\ self = [NewEstimator EXCEPT !.start_age = Some(left), !.end_age = Some(right)]
    /\ out = [op |-> "__init__", status |-> "ok"]
    /\ session_state = NewSession

layout_ticks ==
    /\ LET left == Val(self.start_age)
           right == Val(self.end_age)
           xticks == tick_positions(left, right)
       IN out' = [op |-> "tick_layout", status |-> "ok", left |-> left, right |-> right,
                  xticks |-> xticks,
                  xticklabels |-> tick_labels(xticks, left, right)]
    /\ UNCHANGED <<config, self, session_state>>

TicksNext == layout_ticks

TicksSpec == TicksInit /\ [][TicksNext]_vars

-----------------------------------------------------------------------------
\* Properties

ConfiguredMonths == (config.ages.min_age)..(config.ages.max_age)

\* the fixed partition {[0,12), [12,48), [48,oo)} of the data model
BandOf(m) ==
    CHOOSE b \in {"Infant", "Toddler", "Preschool"} :
        \/ b = "Infant" /\ m \in 0..11
        \/ b = "Toddler" /\ m \in 12..47
        \/ b = "Preschool" /\ m >= 48

TuitionOf(cost_data, band) ==
    CASE band = "Infant" -> cost_data.infant
      [] band = "Toddler" -> cost_data.toddler
      [] band = "Preschool" -> cost_data.preschool

Calculated == out.op = "calculate_costs" /\ out.status = "ok"

\* the month computed at position i of the series
MonthAt(i) == config.ages.min_age + i * config.ages.age_step

\* v is the quotient a / b (b > 0) with its fraction dropped
IsTruncationOf(v, a, b) ==
    IF a >= 0 THEN v * b <= a /\ a < (v + 1) * b
    ELSE (v - 1) * b < a /\ a <= v * b

\* C1: every configured month m >= 0 resolves to exactly one band, Infant for
\* 0 <= m < 12, Toddler for 12 <= m < 48, Preschool for m >= 48, and to that
\* band's tuition; so 11, 12, 47, 48 give Infant, Toddler, Toddler, Preschool.
C1_ResolverPartition ==
    (out.op = "month_to_cost" /\ out.month \in ConfiguredMonths /\ out.month >= 0)
        => /\ out.status = "ok"
           /\ out.band = BandOf(out.month)
           /\ out.cost = TuitionOf(Val(self.cost_data), BandOf(out.month))
           /\ out.month = 11 => out.band = "Infant"
           /\ out.month = 12 => out.band = "Toddler"
           /\ out.month = 47 => out.band = "Toddler"
           /\ out.month = 48 => out.band = "Preschool"

C1_Witness ==
    /\ out.op = "month_to_cost" /\ out.month = 48 /\ out.month \in ConfiguredMonths
    /\ out.band = "Preschool"
    /\ out.cost = 8400

\* C2: right after the projection every monthly value is (annual tuition of
\* the month's band x the bracket's multiplier) / 12 with the fraction dropped
\* once, after the multiplier; the example table with multiplier 1 gives 1000,
\* 800 and 700 at months 0, 12 and 48.
C2_MonthlyValue ==
    (Calculated /\ IsSome(self.cost_data)) =>
        LET monthly == Val(self.monthly_cost_df)
            cd == Val(self.cost_data)
            mult == projection_multipliers(self.use_default_data, config.cost_multipliers)
        IN /\ monthly.columns = DOMAIN mult
           /\ \A c \in monthly.columns : \A i \in Index(monthly) :
                 IsTruncationOf(monthly.val[c][i],
                                TuitionOf(cd, BandOf(MonthAt(i))) * mult[c].num,
                                mult[c].den * 12)
           /\ ( /\ cd = CostData(12000, 9600, 8400)
                /\ self.use_default_data
                /\ config.ages.min_age = 0 /\ config.ages.age_step = 1
                /\ monthly.n > 48 )
              => /\ monthly.val["Average"][0] = 1000
                 /\ monthly.val["Average"][12] = 800
                 /\ monthly.val["Average"][48] = 700

C2_Witness ==
    /\ Calculated /\ IsSome(self.cost_data)
    /\ Val(self.cost_data) = CostData(1000, 700, 500)
    /\ config.ages.min_age = 0 /\ config.ages.age_step = 1
    /\ "High" \in Val(self.monthly_cost_df).columns
    /\ Val(self.monthly_cost_df).n > 48
    /\ Val(self.monthly_cost_df).val["High"][0] = 104
    /\ Val(self.monthly_cost_df).val["Average"][48] = 41

\* the sum of the column's values at positions 0..k
RECURSIVE SumTo(_, _)
SumTo(f, k) == IF k < 0 THEN 0 ELSE SumTo(f, k - 1) + f[k]

\* C3: for every bracket and position k, cumulative[k] = monthly[0] + ... +
\* monthly[k]: cumulative[first] = monthly[first] and cumulative[k] =
\* cumulative[k-1] + monthly[k]; with the example table cumulative[12] = 12800.
C3_PrefixSum ==
    IsSome(self.cumulative_cost_df) =>
        LET monthly == Val(self.monthly_cost_df)
            cumulative == Val(self.cumulative_cost_df)
        IN /\ cumulative.columns = monthly.columns /\ cumulative.n = monthly.n
           /\ \A c \in monthly.columns : \A k \in Index(monthly) :
                 /\ cumulative.val[c][k] =
                        (IF k = 0 THEN 0 ELSE cumulative.val[c][k - 1]) + monthly.val[c][k]
                 /\ Calculated => cumulative.val[c][k] = SumTo(monthly.val[c], k)
           /\ ( /\ Calculated /\ self.cost_data = Some(CostData(12000, 9600, 8400))
                /\ self.use_default_data
                /\ config.ages.min_age = 0 /\ config.ages.age_step = 1
                /\ monthly.n > 12 )
              => cumulative.val["Average"][12] = 12800

C3_Witness ==
    /\ Calculated
    /\ Val(self.cumulative_cost_df).n > 12
    /\ "Average" \in Val(self.cumulative_cost_df).columns
    /\ Val(self.cumulative_cost_df).val["Average"][12] = 12800
    /\ Val(self.monthly_cost_df).val["Average"][12] = 800

\* the summary is asked for an interval inside the index and a known bracket
IntervalInIndex ==
    /\ out.op = "display_summary_card"
    /\ IsSome(self.cumulative_cost_df)
    /\ IsSome(self.start_age) /\ IsSome(self.end_age) /\ IsSome(self.user_bracket)
    /\ Val(self.start_age) \in Index(Val(self.cumulative_cost_df))
    /\ Val(self.end_age) \in Index(Val(self.cumulative_cost_df))
    /\ Val(self.start_age) <= Val(self.end_age)
    /\ Val(self.user_bracket) \in Val(self.cumulative_cost_df).columns

\* C4: for an interval start <= end inside the index and the selected bracket,
\* total_cost = cumulative[end] - cumulative[start] of that bracket and
\* duration_months = end - start (start 6, end 54: duration 48).
C4_TotalAndDuration ==
    IntervalInIndex =>
        LET cumulative == Val(self.cumulative_cost_df).val[Val(self.user_bracket)]
        IN /\ out.status = "ok"
           /\ out.total_cost = cumulative[Val(self.end_age)] - cumulative[Val(self.start_age)]
           /\ out.duration_months = Val(self.end_age) - Val(self.start_age)
           /\ (Val(self.start_age) = 6 /\ Val(self.end_age) = 54)
                 => out.duration_months = 48

C4_Witness ==
    /\ IntervalInIndex /\ out.status = "ok"
    /\ Val(self.start_age) = 6 /\ Val(self.end_age) = 54
    /\ out.duration_months = 48
    /\ out.total_cost > 0

\* C5: the summary's avg_monthly_cost is the mean of the selected bracket's
\* monthly values over exactly the months start..end (end - start + 1 values).
C5_AverageOverInterval ==
    (IntervalInIndex /\ out.status = "ok") =>
        LET monthly == Val(self.monthly_cost_df).val[Val(self.user_bracket)]
            s == Val(self.start_age)
            e == Val(self.end_age)
        IN out.avg_monthly_cost.num * (e - s + 1)
              = (SumTo(monthly, e) - SumTo(monthly, s - 1)) * out.avg_monthly_cost.den

\* C6: for min-age <= max-age the projected months start at min-age and end
\* at max-age, whatever the step.
C6_RangeInclusive ==
    (Calculated /\ config.ages.min_age <= config.ages.max_age) =>
        LET n == Val(self.monthly_cost_df).n
        IN /\ n >= 1
           /\ MonthAt(0) = config.ages.min_age
           /\ MonthAt(n - 1) = config.ages.max_age

\* C7: the entry the summary and the chart address with label m holds the
\* value computed for child age m months.
C7_IndexedByMonth ==
    (Calculated /\ IsSome(self.cost_data)) =>
        LET monthly == Val(self.monthly_cost_df)
            cd == Val(self.cost_data)
            mult == projection_multipliers(self.use_default_data, config.cost_multipliers)
        IN \A m \in slider_values(config.ages) \cap Index(monthly) :
              \A c \in monthly.columns :
                 IsTruncationOf(monthly.val[c][m],
                                TuitionOf(cd, BandOf(m)) * mult[c].num,
                                mult[c].den * 12)

\* C8: resolving a month outside the configured [min-age, max-age] gives a
\* domain error, never a band.
C8_OutsideIsDomainError ==
    (out.op = "month_to_cost" /\ out.month \notin ConfiguredMonths)
        => out.status /= "ok"

\* C9: the projector fails, and produces no series, when min-age > max-age or
\* a bracket multiplier is <= 0.
C9_ConfigurationError ==
    ( /\ out.op = "calculate_costs"
      /\ \/ config.ages.min_age > config.ages.max_age
         \/ \E b \in Brackets : self.use_default_data /\ config.cost_multipliers[b].num <= 0 )
        => out.status /= "ok"

\* C10: asked for a bracket that is no column, or for a start or end outside
\* the index, the summary fails with a lookup error and reports no total,
\* average or duration.
C10_LookupError ==
    ( /\ out.op = "display_summary_card"
      /\ IsSome(self.cumulative_cost_df)
      /\ LET df == Val(self.cumulative_cost_df)
         IN \/ ~(IsSome(self.user_bracket) /\ Val(self.user_bracket) \in df.columns)
            \/ ~(IsSome(self.start_age) /\ Val(self.start_age) \in Index(df))
            \/ ~(IsSome(self.end_age) /\ Val(self.end_age) \in Index(df)) )
        => /\ out.status = "KeyError"
           /\ DOMAIN out = {"op", "status"}

C10_Witness ==
    /\ out.op = "display_summary_card" /\ out.status = "KeyError"
    /\ IsSome(self.cumulative_cost_df) /\ Val(self.cumulative_cost_df).n > 0
    /\ IsSome(self.user_bracket)
    /\ Val(self.user_bracket) \in Val(self.cumulative_cost_df).columns
    /\ IsSome(self.end_age)
    /\ Val(self.end_age) > Val(self.cumulative_cost_df).n - 1
    /\ Val(self.start_age) \in Index(Val(self.cumulative_cost_df))

\* C20: months_to_str(n) names years = n div 12 and months = n mod 12, with the
\* singular for 1, no year part for 0 years, no month part for 0 months of one
\* year or more, and "0 months" for n = 0.
C20_MonthsToStr ==
    out.op = "months_to_str" =>
        \E years \in 0..out.n, mths \in 0..11 :
            /\ 12 * years + mths = out.n
            /\ LET year_part == CASE years = 0 -> ""
                                  [] years = 1 -> "1 year"
                                  [] OTHER -> ToString(years) \o " years"
                   month_part == CASE mths = 0 /\ years >= 1 -> ""
                                   [] mths = 1 -> "1 month"
                                   [] OTHER -> ToString(mths) \o " months"
               IN /\ out.text = year_part \o " " \o month_part
                  /\ out.n = 0 => out.text = " 0 months"

C20_Witness ==
    /\ out.op = "months_to_str" /\ out.n = 13
    /\ out.text = "1 year 1 month"


\* C14: for left <= right the tick positions are strictly increasing, contain
\* left and right and every base tick 0, 10, ..., 70; a position that left or
\* right shares with a base tick or with each other appears once.
C14_TickPositions ==
    out.op = "tick_layout" =>
        LET t == out.xticks
        IN /\ \A i \in 1..(Len(t) - 1) : t[i] < t[i + 1]
           /\ \E i \in 1..Len(t) : t[i] = out.left
           /\ \E i \in 1..Len(t) : t[i] = out.right
           /\ \A b \in {0, 10, 20, 30, 40, 50, 60, 70} : \E i \in 1..Len(t) : t[i] = b
           /\ \A x \in {out.left, out.right} \cup {0, 10, 20, 30, 40, 50, 60, 70} :
                  Cardinality({i \in 1..Len(t) : t[i] = x}) = 1
           /\ {t[i] : i \in 1..Len(t)} = {out.left, out.right} \cup {0, 10, 20, 30, 40, 50, 60, 70}

C14_Witness ==
    /\ out.op = "tick_layout"
    /\ out.left = 20 /\ out.right = 20
    /\ out.xticks = <<0, 10, 20, 30, 40, 50, 60, 70>>

\* the forms a bold label of x takes: the bold number, moved down by one line
\* break for each of left and right that x is and that has a neighbouring tick
BoldForms(x) ==
    {"<b>" \o ToString(x) \o "</b>",
     "<br><b>" \o ToString(x) \o "</b>",
     "<br><br><b>" \o ToString(x) \o "</b>"}

\* C15: for left <= right (left = 0 and left = right included) there is one
\* label per tick position, the labels at left and right are the bold forms of
\* left and right, and no other label is bold.
C15_TickLabels ==
    out.op = "tick_layout" =>
        LET t == out.xticks
            l == out.xticklabels
        IN /\ Len(l) = Len(t)
           /\ \A i \in 1..Len(t) :
                 IF t[i] \in {out.left, out.right}
                 THEN l[i] \in BoldForms(t[i])
                 ELSE l[i] = IF i = 1 THEN "0<br><i>months</i>" ELSE ToString(t[i])

C15_Witness ==
    /\ out.op = "tick_layout"
    /\ out.left = 0 /\ out.right = 0
    /\ out.xticklabels[1] = "<b>0</b>"
    /\ Len(out.xticklabels) = 8


\* C19: plot_trend leaves the caller's cumulative_data and monthly_data as they
\* were: drawing the chart changes neither frame of the estimator, so the
\* summary reads the cumulative series it would have read before the chart.
C19_CallerDataUnchanged ==
    [][out'.op = "display_cumulative_cost" =>
          /\ self'.cumulative_cost_df = self.cumulative_cost_df
          /\ self'.monthly_cost_df = self.monthly_cost_df]_vars

C19_Witness ==
    /\ out.op = "display_cumulative_cost" /\ out.status = "ok"
    /\ Val(self.start_age) > 0
    /\ Loc(Val(self.cumulative_cost_df), Val(self.start_age), out.highlight) /= 0
    /\ out.cumulative_markers[1] = 0


\* C18: within an execution of run the steps occur in the order get_user_input,
\* calculate_costs, display_tuition_metrics, get_daycare_duration,
\* display_cumulative_cost, display_summary_card, so a display step finds
\* cost_data, the two series, start_age and end_age assigned by the same
\* execution.
C18_PipelineOrder ==
    [][/\ out'.op = "get_user_input" => out.op = "__init__"
       /\ out'.op = "calculate_costs" => out.op = "get_user_input"
       /\ out'.op = "display_tuition_metrics" =>
              /\ out.op = "calculate_costs"
              /\ IsSome(self.cost_data)
              /\ out'.status /= "AttributeError"
       /\ out'.op = "get_daycare_duration" => out.op = "display_tuition_metrics"
       /\ out'.op = "display_cumulative_cost" =>
              /\ out.op = "get_daycare_duration"
              /\ IsSome(self.monthly_cost_df) /\ IsSome(self.cumulative_cost_df)
              /\ IsSome(self.start_age) /\ IsSome(self.end_age)
              /\ out'.status /= "AttributeError"
       /\ out'.op = "display_summary_card" =>
              /\ out.op = "display_cumulative_cost"
              /\ IsSome(self.monthly_cost_df) /\ IsSome(self.cumulative_cost_df)
              /\ IsSome(self.start_age) /\ IsSome(self.end_age)
              /\ out'.status /= "AttributeError"]_vars

C18_Witness ==
    /\ out.op = "display_summary_card" /\ out.status = "ok"
    /\ IsSome(self.cost_data) /\ IsSome(self.start_age) /\ IsSome(self.end_age)
    /\ IsSome(self.cumulative_cost_df) /\ Val(self.cumulative_cost_df).n > 0

\* C13 (as stated): in every run and data mode the two series have exactly one
\* column per configured cost-multiplier bracket.
C13_ColumnPerConfiguredBracket ==
    IsSome(self.monthly_cost_df) =>
        /\ Val(self.monthly_cost_df).columns = DOMAIN config.cost_multipliers
        /\ Val(self.cumulative_cost_df).columns = DOMAIN config.cost_multipliers

\* C13 (amended): with the state averages the two series have exactly one
\* column per configured bracket, with the user's own figures exactly the one
\* column "User Data"; the columns of both series share one index, the chart
\* plots all of them, and the selected bracket is one of them and is the one
\* highlighted and summarised.
C13_ColumnsByMode ==
    /\ IsSome(self.monthly_cost_df) =>
          LET monthly == Val(self.monthly_cost_df)
              cumulative == Val(self.cumulative_cost_df)
              expected == IF self.use_default_data THEN DOMAIN config.cost_multipliers
                          ELSE {"User Data"}
          IN /\ monthly.columns = expected /\ cumulative.columns = expected
             /\ \A c \in expected :
                    /\ DOMAIN monthly.val[c] = 0..(monthly.n - 1)
                    /\ DOMAIN cumulative.val[c] = 0..(monthly.n - 1)
             /\ Cardinality({c \in expected : self.user_bracket = Some(c)}) = 1
    /\ (out.op = "display_cumulative_cost" /\ out.status = "ok") =>
          /\ out.plotted = Val(self.monthly_cost_df).columns
          /\ Some(out.highlight) = self.user_bracket

C13_Witness ==
    /\ out.op = "display_cumulative_cost" /\ out.status = "ok"
    /\ ~self.use_default_data
    /\ out.plotted = {"User Data"}


\* the summary of the chosen interval and bracket for another tuition table
\* and other configured multipliers
SummaryFor(cost_data, cost_multipliers) ==
    LET monthly == monthly_cost_frame(cost_data, config.ages,
                       projection_multipliers(self.use_default_data, cost_multipliers))
    IN summary(cumsum(monthly), monthly, self.start_age, self.end_age, self.user_bracket)

ScaledTuition(cost_data, c) ==
    CostData(c * cost_data.infant, c * cost_data.toddler, c * cost_data.preschool)

ScaledMultipliers(cost_multipliers, c) ==
    [b \in DOMAIN cost_multipliers |->
        Rat(c * cost_multipliers[b].num, cost_multipliers[b].den)]

\* the inputs scaled by c: the tuition, or (with the state averages, where the
\* configured multipliers are used) the multipliers
ScaledSummaries(c) ==
    {SummaryFor(ScaledTuition(Val(self.cost_data), c), config.cost_multipliers)}
        \cup (IF self.use_default_data
              THEN {SummaryFor(Val(self.cost_data),
                               ScaledMultipliers(config.cost_multipliers, c))}
              ELSE {})

SummaryShown == out.op = "display_summary_card" /\ out.status = "ok"

Abs(x) == IF x >= 0 THEN x ELSE 0 - x

\* no monthly value of the selected bracket loses a fraction
NothingTruncated ==
    LET m == projection_multipliers(self.use_default_data,
                                    config.cost_multipliers)[Val(self.user_bracket)]
    IN \A i \in Index(Val(self.monthly_cost_df)) :
           (month_to_cost(Val(self.cost_data), MonthAt(i)) * m.num)
               % (m.den * MonthsPerYear) = 0

\* C11 (as stated): multiplying the tuition or the multiplier by a positive
\* integer c multiplies total_cost and avg_monthly_cost by exactly c and leaves
\* duration_months unchanged.
C11_ExactScaling ==
    SummaryShown =>
        \A c \in 1..MaxFactor : \A scaled \in ScaledSummaries(c) :
            /\ scaled.status = "ok"
            /\ scaled.duration_months = out.duration_months
            /\ scaled.total_cost = c * out.total_cost
            /\ scaled.avg_monthly_cost.num * out.avg_monthly_cost.den
                   = c * out.avg_monthly_cost.num * scaled.avg_monthly_cost.den

\* C11 (amended): scaling by c leaves duration_months unchanged; total_cost
\* and avg_monthly_cost are multiplied by exactly c when no monthly value is
\* truncated, and otherwise differ from c times the original by at most
\* (c - 1) per month summed: (c - 1) * (end - start) for the total and
\* c - 1 for the average.
C11_ScalingUpToTruncation ==
    SummaryShown =>
        \A c \in 1..MaxFactor : \A scaled \in ScaledSummaries(c) :
            /\ scaled.status = "ok"
            /\ scaled.duration_months = out.duration_months
            /\ scaled.avg_monthly_cost.den = out.avg_monthly_cost.den
            /\ Abs(scaled.total_cost - c * out.total_cost)
                   <= (c - 1) * (Val(self.end_age) - Val(self.start_age))
            /\ Abs(scaled.avg_monthly_cost.num - c * out.avg_monthly_cost.num)
                   <= (c - 1) * out.avg_monthly_cost.den
            /\ NothingTruncated =>
                   /\ scaled.total_cost = c * out.total_cost
                   /\ scaled.avg_monthly_cost.num = c * out.avg_monthly_cost.num

C11_Witness ==
    /\ SummaryShown
    /\ ~NothingTruncated
    /\ Val(self.end_age) > Val(self.start_age)
    /\ \E scaled \in ScaledSummaries(2) :
           /\ scaled.total_cost /= 2 * out.total_cost
           /\ Abs(scaled.total_cost - 2 * out.total_cost)
                  = Val(self.end_age) - Val(self.start_age)

\* C12: calculating again with the same tuition, age configuration and
\* multipliers gives the same monthly and cumulative series and changes
\* neither the tuition table nor the configuration (nor anything else of the
\* estimator).
C12_ProjectionIdempotent ==
    [][(Calculated /\ out'.op = "calculate_costs") =>
           /\ out'.status = "ok"
           /\ self'.monthly_cost_df = self.monthly_cost_df
           /\ self'.cumulative_cost_df = self.cumulative_cost_df
           /\ self'.cost_data = self.cost_data
           /\ self' = self
           /\ config' = config]_vars

C12_Witness ==
    /\ Calculated
    /\ Val(self.monthly_cost_df).n > 1
    /\ \E c \in Val(self.monthly_cost_df).columns : Val(self.monthly_cost_df).val[c][0] /= 0

\* multiplier mappings that differ from the configured one in one bracket:
\* its multiplier changed, the bracket removed, or a bracket added
OtherMultipliers ==
    LET m == config.cost_multipliers
    IN {[m EXCEPT ![b] = r] : b \in DOMAIN m, r \in {Rat(2, 1), Rat(1, 3)}}
       \cup {[c \in DOMAIN m \ {b} |-> m[c]] : b \in DOMAIN m}
       \cup {[c \in DOMAIN m \cup {"Extra"} |-> IF c \in DOMAIN m THEN m[c] ELSE Rat(2, 1)]}

\* C17: changing the multiplier of one bracket, removing a bracket or adding
\* one leaves the monthly and the cumulative column of every other bracket as
\* they are.
C17_BracketsIndependent ==
    (Calculated /\ self.use_default_data) =>
        \A other \in OtherMultipliers :
            LET monthly == monthly_cost_frame(
                               IF IsSome(self.cost_data) THEN Val(self.cost_data)
                               ELSE CostData(0, 0, 0),
                               config.ages,
                               projection_multipliers(self.use_default_data, other))
                cumulative == cumsum(monthly)
            IN \A b \in DOMAIN other \cap DOMAIN config.cost_multipliers :
                   other[b] = config.cost_multipliers[b] =>
                       /\ monthly.val[b] = Val(self.monthly_cost_df).val[b]
                       /\ cumulative.val[b] = Val(self.cumulative_cost_df).val[b]

C17_Witness ==
    /\ Calculated /\ self.use_default_data
    /\ Val(self.monthly_cost_df).n > 1
    /\ \E b \in Val(self.monthly_cost_df).columns, c \in Val(self.monthly_cost_df).columns :
           /\ Val(self.monthly_cost_df).val[b][0] /= 0
           /\ Val(self.monthly_cost_df).val[b][0] /= Val(self.monthly_cost_df).val[c][0]


\* C16: what a call of creche_v1.get_daycare_duration returns and finally
\* shows depends on the slider's pair of that call only, whatever pair earlier
\* calls stored: the text shown last is the text of the returned pair, and the
\* stored pair is the returned pair.
C16_HistoryIndependent ==
    (out.op = "v1.get_daycare_duration" /\ out.status = "ok") =>
        /\ out.text = <<months_to_str(out.start), months_to_str(out.end)>>
        /\ session_state = [start |-> Some(out.start), end |-> Some(out.end)]

C16_Witness ==
    /\ out.op = "v1.get_daycare_duration" /\ out.status = "ok"
    /\ out.first_text /= out.text
    /\ out.first_text /= <<months_to_str(config.ages.default_age_start),
                           months_to_str(config.ages.default_age_end)>>
    /\ session_state.start = Some(out.start)


\* C21: for the same tuition table, age configuration and multiplier mapping,
\* compute_monthly_cost_df and cumulative_cost of creche_v1 give the monthly
\* and cumulative series that calculate_costs gives with the state averages.
C21_RewritesAgree ==
    (out.op = "v1.projection" /\ self.use_default_data) =>
        /\ out.monthly_cost_df = Val(self.monthly_cost_df)
        /\ out.cumulative_cost_df = Val(self.cumulative_cost_df)

C21_Witness ==
    /\ out.op = "v1.projection" /\ self.use_default_data
    /\ out.monthly_cost_df.n > ToddlerLimit
    /\ out.monthly_cost_df.val["Low"][0] /= out.monthly_cost_df.val["Low"][out.monthly_cost_df.n - 1]
    /\ out.cumulative_cost_df.val["High"][1] /= 0


\* C22: with min-age 0 and step 1, for start <= end the total_cost is the sum
\* of the selected bracket's monthly values over the months start+1..end,
\* duration_months = end - start terms, the start month's own cost not
\* counted; so total_cost = 0 when start = end.
C22_TotalSkipsStartMonth ==
    (out.op = "display_summary_card"
        /\ config.ages.min_age = 0 /\ config.ages.age_step = 1) =>
        LET monthly == Val(self.monthly_cost_df).val[Val(self.user_bracket)]
            s == Val(self.start_age)
            e == Val(self.end_age)
        IN /\ out.status = "ok"
           /\ s <= e
           /\ out.total_cost = SumTo(monthly, e) - SumTo(monthly, s)
           /\ out.duration_months = Cardinality((s + 1)..e)
           /\ s = e => out.total_cost = 0

C22_Witness ==
    /\ SummaryShown
    /\ config.ages.min_age = 0 /\ config.ages.age_step = 1
    /\ Val(self.start_age) = Val(self.end_age)
    /\ Val(self.monthly_cost_df).val[Val(self.user_bracket)][Val(self.start_age)] > 0
    /\ out.total_cost = 0

\* C23: when calculate_costs follows get_user_input, in either data mode, the
\* user_bracket is a column of monthly_cost_df and of cumulative_cost_df, so
\* neither the chart nor the summary meets a missing column for it.
C23_SelectedBracketIsColumn ==
    [][/\ (out.op = "get_user_input" /\ out'.op = "calculate_costs") =>
              /\ out'.status = "ok"
              /\ IsSome(self'.user_bracket)
              /\ Val(self'.user_bracket) \in Val(self'.monthly_cost_df).columns
              /\ Val(self'.user_bracket) \in Val(self'.cumulative_cost_df).columns
       /\ (out'.op \in {"display_cumulative_cost", "display_summary_card"}
              /\ out'.status = "KeyError") =>
              /\ Val(self.user_bracket) \in Val(self.cumulative_cost_df).columns
              /\ Val(self.user_bracket) \in Val(self.monthly_cost_df).columns]_vars

C23_Witness ==
    /\ Calculated
    /\ ~self.use_default_data
    /\ self.user_bracket = Some("User Data")
    /\ Val(self.cumulative_cost_df).columns = {"User Data"}
    /\ Val(self.cumulative_cost_df).n > 0

\* C24: after any sequence of get_user_input calls on one estimator, the
\* user_multiplier equals the multiplier applied to the column user_bracket:
\* the selected bracket's configured multiplier with the state averages and 1
\* with the user's own data.
C24_UserMultiplierMatchesColumn ==
    out.op = "get_user_input" =>
        self.user_multiplier =
            projection_multipliers(self.use_default_data,
                                   config.cost_multipliers)[Val(self.user_bracket)]

\* C25: for left <= right in the index and the highlighted column, the
\* cumulative chart's markers are 0 at left and cumulative[right] -
\* cumulative[left] at right, and the latter is the total_cost the summary
\* card shows for the same bracket and interval.
C25_ChartAndSummaryAgree ==
    [][(out.op = "display_cumulative_cost" /\ out.status = "ok"
           /\ out'.op = "display_summary_card") =>
          LET cumulative == Val(self.cumulative_cost_df).val[Val(self.user_bracket)]
          IN /\ Val(self.start_age) <= Val(self.end_age)
             /\ out.cumulative_markers[1] = 0
             /\ out.cumulative_markers[2]
                    = cumulative[Val(self.end_age)] - cumulative[Val(self.start_age)]
             /\ out'.status = "ok"
             /\ out'.total_cost = out.cumulative_markers[2]]_vars

C25_Witness ==
    /\ out.op = "display_cumulative_cost" /\ out.status = "ok"
    /\ Val(self.start_age) > 0 /\ Val(self.start_age) < Val(self.end_age)
    /\ Val(self.cumulative_cost_df).val[out.highlight][Val(self.start_age)] > 0
    /\ out.cumulative_markers[1] = 0
    /\ out.cumulative_markers[2] > 0

\* the tuition is non-negative and every multiplier applied is positive
NonNegativeInputs ==
    /\ IsSome(self.cost_data)
    /\ Val(self.cost_data).infant >= 0
    /\ Val(self.cost_data).toddler >= 0
    /\ Val(self.cost_data).preschool >= 0
    /\ LET m == projection_multipliers(self.use_default_data, config.cost_multipliers)
       IN \A b \in DOMAIN m : m[b].num > 0 /\ m[b].den > 0

\* C26: for non-negative tuition and positive multipliers every monthly value
\* is >= 0 and every cumulative column is non-decreasing along the index, so
\* total_cost >= 0 for every interval with start <= end.
C26_NonNegativeAndMonotone ==
    (NonNegativeInputs /\ IsSome(self.monthly_cost_df)) =>
        LET monthly == Val(self.monthly_cost_df)
            cumulative == Val(self.cumulative_cost_df)
        IN /\ \A c \in monthly.columns : \A i \in Index(monthly) : monthly.val[c][i] >= 0
           /\ \A c \in cumulative.columns : \A i \in Index(cumulative) :
                  i > 0 => cumulative.val[c][i - 1] <= cumulative.val[c][i]
           /\ (SummaryShown /\ Val(self.start_age) <= Val(self.end_age)) =>
                  out.total_cost >= 0

C26_Witness ==
    /\ NonNegativeInputs /\ SummaryShown
    /\ Val(self.start_age) < Val(self.end_age)
    /\ out.total_cost > 0
    /\ \E i \in Index(Val(self.monthly_cost_df)) :
           Val(self.monthly_cost_df).val[Val(self.user_bracket)][i] = 0


\* C27: in prototype.run, for every admissible start and end age the list of
\* monthly costs has one entry per month between the two ages, end_age -
\* start_age entries, and is not empty, so the last cumulative value exists.
C27_OneEntryPerMonth ==
    out.op = "prototype.run" =>
        /\ out.status = "ok"
        /\ Len(out.monthly_costs) = out.end_age - out.start_age
        /\ Len(out.monthly_costs) > 0

====
